---- MODULE Spec2Model ----
(***************************************************************************)
(* State-machine model of the two scanner scripts of rungix/cloudfrunt,    *)
(* src/MaxCDNfrunt.py and src/fastlyfrunt.py.  The scripts are line for    *)
(* line the same pipeline (range fetch, target de-duplication, per-target  *)
(* expansion through dnsrecon, CDN-membership filter, HTTP probe, report)  *)
(* and differ in the payload format of the range feed and in the probe's   *)
(* signature; the variable provider says which script is running.  Line    *)
(* numbers in comments are those of src/MaxCDNfrunt.py unless a comment    *)
(* names fastlyfrunt.py.                                                   *)
(***************************************************************************)
EXTENDS Integers, Sequences, FiniteSets, TLC

VARIABLES
    provider,       \* "maxcdn" | "fastly": which script runs
    python,         \* 2 | 3: the interpreter (both are supported, lines 32-38)
    no_dns,         \* args.no_dns is True (-N given)
    pc,             \* position of main: fetch, loop, probe, reported, done, aborted
    attempt,        \* iterations of the while loop of get_*_ranges made so far
    ranges,         \* maxcdn_ranges / fastly_ranges
    fetched,        \* how many times get_*_ranges returned
    target_list,    \* main's target_list
    i,              \* index of the current target in the for loop of main
    output_json,    \* the file output.json: "absent" | "invalid"
    doc,            \* what dnsrecon left for the current target, in short
    nrecords,       \* len(dns_records) of the current expansion, -1: not loaded
    wildcard,       \* the wildcard branch (line 103) was taken
    url_list,       \* what recon_target returned for the current target
    filterTrue,     \* names get_*_domain answered True for, this target
    filterFalse,    \* names get_*_domain answered False for, this target
    ncalls,         \* calls of get_*_domain made for this target
    j,              \* index of the domain find_*_issues is at
    resp,           \* the outcome of the last urlopen of find_*_issues
    error_domains,  \* error_domains of find_*_issues
    summary,        \* the summary line printed for the current target
    error           \* the exception that ended the run, "none" if none

vars == <<provider, python, no_dns, pc, attempt, ranges, fetched, target_list, i,
          output_json, doc, nrecords, wildcard, url_list, filterTrue, filterFalse,
          ncalls, j, resp, error_domains, summary, error>>

config == <<provider, python, no_dns>>
perTarget == <<doc, nrecords, wildcard, url_list, filterTrue, filterFalse, ncalls,
               j, resp, error_domains, summary>>

(***************************************************************************)
(* Bounds of the model.                                                    *)
(***************************************************************************)
MaxTargets == 2     \* entries of the raw target list
MaxRecords == 2     \* entries of a short dnsrecon record list
MaxRanges == 1      \* entries of the provider's range feed
MaxAttempts == 2    \* URLErrors in a row the environment produces
AddrBits == 2       \* width of an address

\* line 103: more records than this is taken for a wildcard domain
WildcardLimit == 1000

(***************************************************************************)
(* Host names.  A name is its label and suffix with the letter case of     *)
(* each: str.lower (lines 110, 216) clears the case, str.endswith (line    *)
(* 117) and the list membership test (line 109) compare the spelling, DNS  *)
(* resolution (line 123) ignores the case.                                 *)
(***************************************************************************)
Name(label, labelUp, suffix, suffixUp) ==
    [label |-> label, labelUp |-> labelUp, suffix |-> suffix, suffixUp |-> suffixUp]

a_com == Name("a", FALSE, "com", FALSE)         \* a.com
A_COM == Name("a", TRUE, "com", TRUE)           \* A.COM
b_com == Name("b", FALSE, "com", FALSE)         \* b.com
cdn_edge == Name("cdn", FALSE, "edge", FALSE)   \* cdn.<edge suffix>
CDN_EDGE == Name("cdn", TRUE, "edge", TRUE)     \* CDN.<EDGE SUFFIX>

\* str.lower()
Lower(name) == [name EXCEPT !.labelUp = FALSE, !.suffixUp = FALSE]

IsLower(name) == Lower(name) = name

\* domain.endswith('netdna-cdn.com') / domain.endswith('global.prod.fastly.net')
EndsWithEdge(name) == name.suffix = "edge" /\ ~name.suffixUp

Range(s) == {s[k] : k \in 1..Len(s)}

NoDuplicates(s) == \A k, l \in 1..Len(s) : k # l => s[k] # s[l]

SeqsUpTo(S, n) == UNION {[1..m -> S] : m \in 0..n}

(***************************************************************************)
(* The environment of a run: what the resolver answers (line 123) and what *)
(* the range feed can hold (lines 80-82).                                  *)
(***************************************************************************)
\* socket.gethostbyname_ex(domain)[2]; <<>> when the lookup raises (lines 122-125)
Resolve(name) ==
    CASE name.label = "a" /\ name.suffix = "com" -> <<AddrBits + 1, 1>>
      [] name.label = "cdn" /\ name.suffix = "edge" -> <<1>>
      [] OTHER -> <<>>

Cidr(base, len) == [valid |-> TRUE, base |-> base, len |-> len]

\* a line of the feed netaddr cannot parse
BadEntry == [valid |-> FALSE, base |-> 0, len |-> 0]

\* addresses 0 and 1; address 2 alone; a malformed line
RangeEntries == {Cidr(0, AddrBits - 1), Cidr(2, AddrBits), BadEntry}

RangeLists == SeqsUpTo(RangeEntries, MaxRanges)

\* `ip in IPNetwork(ip_range)` for a range netaddr parsed (lines 129-130)
Contains(ip, net) ==
    LET size == 2 ^ (AddrBits - net.len)
    IN  ip \div size = net.base \div size

(***************************************************************************)
(* get_maxcdn_domain / get_fastly_domain, lines 115-133.  The answer is    *)
(* "True", "False", or "raise" when IPNetwork(ip_range) raises on a range  *)
(* it cannot parse (nothing catches it).                                   *)
(***************************************************************************)
RECURSIVE ScanRanges(_, _, _)
\* the inner loop, lines 128-132, from range k on
ScanRanges(ip, rs, k) ==
    IF k > Len(rs) THEN "none"
    ELSE IF ~rs[k].valid THEN "raise"
    ELSE IF Contains(ip, rs[k]) THEN "found"
    ELSE ScanRanges(ip, rs, k + 1)

RECURSIVE ScanIps(_, _, _)
\* the outer loop, lines 127-133, from address m on
ScanIps(ips, rs, m) ==
    IF m > Len(ips) THEN "False"
    ELSE LET r == ScanRanges(ips[m], rs, 1)
         IN  IF r = "raise" THEN "raise"
             ELSE IF r = "found" THEN "True"
             ELSE ScanIps(ips, rs, m + 1)

get_maxcdn_domain(domain, rs) ==
    IF EndsWithEdge(domain) THEN "False" ELSE ScanIps(Resolve(domain), rs, 1)

(***************************************************************************)
(* recon_target, lines 87-112.                                             *)
(***************************************************************************)
\* an element of the JSON document dnsrecon wrote: a dict with a 'name', a
\* dict without one (or with an empty one), or something that is no dict
Elem(kind, name) == [kind |-> kind, name |-> name]

RecordNames == {a_com, A_COM, b_com, cdn_edge, CDN_EDGE}

Elements ==
    {Elem("named", n) : n \in RecordNames}
        \cup {Elem("unnamed", a_com), Elem("notdict", a_com)}

(* The JSON list dnsrecon wrote, given by its length and its first         *)
(* entries, which repeat up to that length (a short list is its first      *)
(* entries; a wildcard zone answers every name alike).                     *)
RecordList(first, len) == [first |-> first, len |-> len]

\* dns_records[k - 1], the k-th record
Record(dns_records, k) ==
    dns_records.first[((k - 1) % Len(dns_records.first)) + 1]

\* the records of the list, as a set: each is one of the first entries
Entries(dns_records) ==
    {Record(dns_records, k) :
        k \in 1..(IF dns_records.len < Len(dns_records.first)
                  THEN dns_records.len ELSE Len(dns_records.first))}

ShortLists == {RecordList(f, Len(f)) : f \in SeqsUpTo(Elements, MaxRecords)}

\* record lists around the wildcard limit
LongLists ==
    {RecordList(<<Elem("named", n)>>, len) :
        n \in {a_com, b_com}, len \in {WildcardLimit, WildcardLimit + 1}}

RecordLists == ShortLists \cup LongLists

(* What the dnsrecon child process left behind: nothing ("none": it crashed *)
(* or wrote no file), a file that is no JSON ("invalid"), a JSON scalar     *)
(* ("scalar": a number, null), or a JSON list; a JSON object or string      *)
(* behaves as the list of its keys or characters, which are no dicts.       *)
DnsreconOutcomes ==
    {[file |-> f, recs |-> RecordList(<<>>, 0)] : f \in {"none", "invalid", "scalar"}}
        \cup {[file |-> "list", recs |-> r] : r \in RecordLists}

\* the file dnsrecon left, the kinds of its elements and the names in it
Summary(out) ==
    [file |-> out.file,
     kinds |-> {e.kind : e \in Entries(out.recs)},
     names |-> {e.name : e \in {x \in Entries(out.recs) : x.kind = "named"}}]

NoDocument == [file |-> "unread", kinds |-> {}, names |-> {}]

Expansion(n, w, st) ==
    [nrecords |-> n, wildcard |-> w, url_list |-> st.url_list, ft |-> st.ft,
     ff |-> st.ff, calls |-> st.calls, err |-> st.err]

NoCalls == [url_list |-> <<>>, ft |-> {}, ff |-> {}, calls |-> 0, err |-> "none"]

\* `[domain] if get_maxcdn_domain(domain,maxcdn_ranges) else []`, lines 101, 105
SeedOnly(domain, rs) ==
    LET a == get_maxcdn_domain(domain, rs)
    IN  CASE a = "raise" ->
               [NoCalls EXCEPT !.calls = 1, !.err = "AddrFormatError"]
          [] a = "True" ->
               [NoCalls EXCEPT !.calls = 1, !.url_list = <<domain>>, !.ft = {domain}]
          [] OTHER ->
               [NoCalls EXCEPT !.calls = 1, !.ff = {domain}]

\* one pass of the for loop of lines 108-110, over record r
ReconStep(r, rs, st) ==
    IF r.kind = "notdict" THEN [st EXCEPT !.err = "AttributeError"]
    ELSE IF r.kind = "unnamed" \/ r.name \in Range(st.url_list) THEN st
    ELSE LET a == get_maxcdn_domain(r.name, rs)
         IN  CASE a = "raise" ->
                    [st EXCEPT !.calls = @ + 1, !.err = "AddrFormatError"]
               [] a = "True" ->
                    [st EXCEPT !.calls = @ + 1,
                               !.ft = @ \cup {r.name},
                               !.url_list = Append(@, Lower(r.name))]
               [] OTHER ->
                    [st EXCEPT !.calls = @ + 1, !.ff = @ \cup {r.name}]

RECURSIVE ReconLoop(_, _, _, _, _)
\* the for loop of lines 107-110 over records lo..hi, in order: the first
\* half of them and, unless one of those raised, the rest
ReconLoop(recs, lo, hi, rs, st) ==
    IF lo > hi THEN st
    ELSE IF lo = hi THEN ReconStep(Record(recs, lo), rs, st)
    ELSE LET mid == (lo + hi) \div 2
             half == ReconLoop(recs, lo, mid, rs, st)
         IN  IF half.err # "none" THEN half
             ELSE ReconLoop(recs, mid + 1, hi, rs, half)

\* IsWildcard with the comparison off by one
IsWildcardFromLimit(dns_records) == dns_records.len >= WildcardLimit

\* line 103
IsWildcard(dns_records) == dns_records.len > WildcardLimit

\* json.load(open('output.json')) raises: the file is missing or is no JSON
LoadFails(out, file) ==
    \/ out.file = "invalid"
    \/ out.file = "none" /\ file \in {"absent", "invalid"}

\* output.json after lines 95-99: removed once loaded, left behind otherwise
FileAfter(out, file) ==
    IF out.file = "none" THEN file
    ELSE IF out.file = "invalid" THEN "invalid"
    ELSE "absent"

recon_target(domain, rs, nodns, out, file) ==
    IF nodns THEN Expansion(-1, FALSE, SeedOnly(domain, rs))
    ELSE IF LoadFails(out, file) THEN Expansion(0, FALSE, NoCalls)
    ELSE IF out.file = "scalar"
        THEN Expansion(-1, FALSE, [NoCalls EXCEPT !.err = "TypeError"])
    ELSE IF IsWildcard(out.recs)
        THEN Expansion(out.recs.len, TRUE, SeedOnly(domain, rs))
    ELSE Expansion(out.recs.len, FALSE, ReconLoop(out.recs, 1, out.recs.len, rs, NoCalls))

(***************************************************************************)
(* find_maxcdn_issues (lines 136-155) and find_fastly_issues               *)
(* (fastlyfrunt.py lines 137-152): what one pass of the loop does with     *)
(* the outcome of urlopen: "append" the domain to error_domains, "skip"    *)
(* it, or "raise" out of the function.                                     *)
(***************************************************************************)
\* an outcome of urlopen('http://' + domain): a response, an HTTPError with
\* its status, or any other exception; marker: the body holds the
\* provider's marker ('StackPath', 'unknown domain')
Response(kind, code, marker) == [kind |-> kind, code |-> code, marker |-> marker]

NoResponse == Response("none", 0, FALSE)

\* urllib raises HTTPError for statuses outside 2xx only
Responses ==
    {Response("ok", 200, m) : m \in BOOLEAN}
        \cup {Response("HTTPError", c, m) : c \in {403, 500}, m \in BOOLEAN}
        \cup {Response("URLError", 0, FALSE)}

\* `marker in e.fp.read()`: e.fp.read() is bytes under Python 3, and a str
\* is never `in` bytes: TypeError, raised inside the except clause
InErrorBody(r, py) ==
    IF py = 3 THEN "raise" ELSE IF r.marker THEN "append" ELSE "skip"

find_maxcdn_issues(r, py) ==
    CASE r.kind = "ok" -> IF r.marker THEN "append" ELSE "skip"
      [] r.kind = "HTTPError" -> IF r.code = 200 THEN InErrorBody(r, py) ELSE "skip"
      [] OTHER -> "skip"

find_fastly_issues(r, py) ==
    CASE r.kind = "HTTPError" -> IF r.code = 500 THEN InErrorBody(r, py) ELSE "skip"
      [] OTHER -> "skip"

find_issues(prov, r, py) ==
    IF prov = "maxcdn" THEN find_maxcdn_issues(r, py) ELSE find_fastly_issues(r, py)

(***************************************************************************)
(* main, lines 158-237.                                                    *)
(***************************************************************************)
\* what -l and -d can name
RawTargets == {a_com, A_COM, b_com}

Orderings(S) ==
    {s \in [1..Cardinality(S) -> S] : \A k, l \in 1..Cardinality(S) : k # l => s[k] # s[l]}

\* line 216: [target.lower() for target in list(set(target_list))], the
\* set listed in any order
Dedup(tl) ==
    {[k \in 1..Len(s) |-> Lower(s[k])] : s \in Orderings(Range(tl))}

\* the per-target state before a target is taken up
FreshTarget ==
    /\ doc = NoDocument
    /\ nrecords = -1
    /\ wildcard = FALSE
    /\ url_list = <<>>
    /\ filterTrue = {}
    /\ filterFalse = {}
    /\ ncalls = 0
    /\ j = 1
    /\ resp = NoResponse
    /\ error_domains = <<>>
    /\ summary = "none"

Init ==
    /\ provider \in {"maxcdn", "fastly"}
    /\ python \in {2, 3}
    /\ no_dns \in BOOLEAN
    /\ pc = "fetch"
    /\ attempt = 0
    /\ ranges = <<>>
    /\ fetched = 0
    /\ target_list \in SeqsUpTo(RawTargets, MaxTargets)
    /\ i = 1
    /\ output_json = "absent"
    /\ FreshTarget
    /\ error = "none"

\* FetchURLError with the URLError taken for fatal: the run ends
FetchURLErrorGivesUp ==
    /\ pc = "fetch"
    /\ attempt < MaxAttempts
    /\ attempt' = attempt + 1
    /\ pc' = "aborted"
    /\ error' = "fetch"
    /\ UNCHANGED <<config, ranges, fetched, target_list, i, output_json, perTarget>>

\* lines 72-75: urlopen raises URLError, the loop goes round
FetchURLError ==
    /\ pc = "fetch"
    /\ attempt < MaxAttempts
    /\ attempt' = attempt + 1
    /\ UNCHANGED <<config, pc, ranges, fetched, target_list, i, output_json,
                   perTarget, error>>

\* lines 76-78: urlopen raises anything else, which is raised again
FetchFatal ==
    /\ pc = "fetch"
    /\ pc' = "aborted"
    /\ error' = "fetch"
    /\ UNCHANGED <<config, attempt, ranges, fetched, target_list, i, output_json,
                   perTarget>>

\* fastlyfrunt.py lines 80-81: the payload is no JSON or has no 'addresses'
FetchUnparseable ==
    /\ pc = "fetch"
    /\ provider = "fastly"
    /\ pc' = "aborted"
    /\ error' = "ValueError"
    /\ UNCHANGED <<config, attempt, ranges, fetched, target_list, i, output_json,
                   perTarget>>

\* lines 73, 80-84 and 215-216: the fetch succeeds, every item of the
\* payload becomes a range, and the target list is de-duplicated
FetchOK ==
    /\ pc = "fetch"
    /\ \E payload \in RangeLists : ranges' = payload
    /\ fetched' = fetched + 1
    /\ attempt' = 0
    /\ target_list' \in Dedup(target_list)
    /\ pc' = "loop"
    /\ UNCHANGED <<config, i, output_json, perTarget, error>>

\* line 221, the call of recon_target for the current target
Recon ==
    /\ pc = "loop"
    /\ i <= Len(target_list)
    /\ \E out \in IF no_dns THEN {[file |-> "none", recs |-> RecordList(<<>>, 0)]}
                  ELSE DnsreconOutcomes :
        \E e \in {recon_target(target_list[i], ranges, no_dns, out, output_json)} :
            /\ doc' = IF no_dns THEN NoDocument ELSE Summary(out)
            /\ nrecords' = e.nrecords
            /\ wildcard' = e.wildcard
            /\ url_list' = IF e.err = "none" THEN e.url_list ELSE <<>>
            /\ filterTrue' = e.ft
            /\ filterFalse' = e.ff
            /\ ncalls' = e.calls
            /\ error' = e.err
            /\ pc' = IF e.err = "none" THEN "probe" ELSE "aborted"
            /\ output_json' = IF no_dns THEN output_json ELSE FileAfter(out, output_json)
    /\ UNCHANGED <<config, attempt, ranges, fetched, target_list, i, j, resp,
                   error_domains, summary>>

\* one pass of the loop of find_*_issues (line 140) over url_list[j]
ProbeOne ==
    /\ pc = "probe"
    /\ j <= Len(url_list)
    /\ \E r \in Responses :
        LET a == find_issues(provider, r, python)
        IN  /\ resp' = r
            /\ error_domains' =
                   IF a = "append" THEN Append(error_domains, url_list[j])
                   ELSE error_domains
            /\ j' = IF a = "raise" THEN j ELSE j + 1
            /\ pc' = IF a = "raise" THEN "aborted" ELSE "probe"
            /\ error' = IF a = "raise" THEN "TypeError" ELSE error
    /\ UNCHANGED <<config, attempt, ranges, fetched, target_list, i, output_json,
                   doc, nrecords, wildcard, url_list, filterTrue, filterFalse,
                   ncalls, summary>>

\* lines 223-235: find_*_issues returned, the summary of the target is printed
Report ==
    /\ pc = "probe"
    /\ j > Len(url_list)
    /\ summary' = IF error_domains # <<>> THEN "issues" ELSE "No issues found"
    /\ pc' = "reported"
    /\ UNCHANGED <<config, attempt, ranges, fetched, target_list, i, output_json,
                   doc, nrecords, wildcard, url_list, filterTrue, filterFalse,
                   ncalls, j, resp, error_domains, error>>

\* line 218: the for loop takes the next target
NextTarget ==
    /\ pc = "reported"
    /\ i' = i + 1
    /\ doc' = NoDocument
    /\ nrecords' = -1
    /\ wildcard' = FALSE
    /\ url_list' = <<>>
    /\ filterTrue' = {}
    /\ filterFalse' = {}
    /\ ncalls' = 0
    /\ j' = 1
    /\ resp' = NoResponse
    /\ error_domains' = <<>>
    /\ summary' = "none"
    /\ pc' = "loop"
    /\ UNCHANGED <<config, attempt, ranges, fetched, target_list, output_json, error>>

\* line 237: the loop is over
Finish ==
    /\ pc = "loop"
    /\ i > Len(target_list)
    /\ pc' = "done"
    /\ UNCHANGED <<config, attempt, ranges, fetched, target_list, i, output_json,
                   perTarget, error>>

Next ==
    \/ FetchURLError
    \/ FetchFatal
    \/ FetchUnparseable
    \/ FetchOK
    \/ Recon
    \/ ProbeOne
    \/ Report
    \/ NextTarget
    \/ Finish

Spec == Init /\ [][Next]_vars

(***************************************************************************)
(* What the claims speak of, read off the state.                           *)
(***************************************************************************)
\* recon_target returned for the current target
Returned == pc \in {"probe", "reported"}

Target == target_list[i]

\* the domains of the current target urlopen was called for (line 142)
Probed ==
    {url_list[k] :
        k \in {l \in 1..Len(url_list) : l < j \/ (l = j /\ pc = "aborted")}}

\* the domains reported as misconfigured for the current target
Reported == Range(error_domains)

\* a pass of the loop of find_*_issues is the next step
Probing == pc = "probe" /\ j <= Len(url_list)

\* the pass appends the domain it probed to error_domains
Appends == error_domains' = Append(error_domains, url_list[j])

\* the document dnsrecon left is none, or no list of records with a 'name'
Malformed ==
    \/ doc.file \in {"none", "invalid", "scalar"}
    \/ doc.file = "list" /\ doc.kinds # {} /\ "named" \notin doc.kinds

\* some resolved address of the domain lies in a range that parses
InValidRange(domain, rs) ==
    \E k \in 1..Len(Resolve(domain)), l \in 1..Len(rs) :
        rs[l].valid /\ Contains(Resolve(domain)[k], rs[l])

(***************************************************************************)
(* C1.  A domain is probed, and reported, only after the filter answered   *)
(* True for it (for a spelling of it) in the expansion of the same target, *)
(* and no domain the filter answered False for is probed or reported.      *)
(***************************************************************************)
C1_ProbedOnlyIfFiltered ==
    \A d \in Probed \cup Reported :
        /\ \E n \in filterTrue : Lower(n) = Lower(d)
        /\ d \notin filterFalse

(***************************************************************************)
(* C2.  MaxCDN probe: a pass of the loop reports the domain exactly when   *)
(* the GET succeeds with the marker in the body or fails with an HTTPError *)
(* whose body holds the marker; any other outcome leaves it unreported.    *)
(***************************************************************************)
C2_MaxCDNSignature ==
    [][(provider = "maxcdn" /\ Probing) =>
          (Appends <=> (resp'.kind \in {"ok", "HTTPError"} /\ resp'.marker))]_vars

(***************************************************************************)
(* C3.  Fastly probe: a pass of the loop reports the domain if and only if *)
(* the outcome is an HTTPError with status 500 whose body holds 'unknown   *)
(* domain'.                                                                *)
(***************************************************************************)
C3_FastlySignature ==
    [][(provider = "fastly" /\ Probing) =>
          (Appends <=>
              (resp'.kind = "HTTPError" /\ resp'.code = 500 /\ resp'.marker))]_vars

(***************************************************************************)
(* C4.  The list the per-target loop iterates is lowercase and holds no    *)
(* domain twice.                                                           *)
(***************************************************************************)
C4_TargetsUnique ==
    fetched = 1 =>
        /\ \A k \in 1..Len(target_list) : IsLower(target_list[k])
        /\ NoDuplicates(target_list)

(***************************************************************************)
(* C5.  A range entry that is no CIDR string is skipped: the run never     *)
(* ends on it, and the filter answers True for a domain exactly when the   *)
(* domain is no edge host and one of its addresses lies in a valid range.  *)
(***************************************************************************)
C5_MalformedRangeSkipped ==
    /\ error # "AddrFormatError"
    /\ \A n \in filterTrue \cup filterFalse :
          n \in filterTrue <=> (~EndsWithEdge(n) /\ InValidRange(n, ranges))

(***************************************************************************)
(* C6.  Range fetch: an attempt that ends in URLError is followed by       *)
(* another attempt (the loop is still at the fetch, nothing is aborted);   *)
(* any other failure ends the run for good; no target is expanded,         *)
(* filtered or probed before a fetch succeeded; and the fetch succeeds at  *)
(* most once, its ranges never changing afterwards.                        *)
(***************************************************************************)
C6_NothingBeforeFetch ==
    /\ fetched \in {0, 1}
    /\ pc = "fetch" => fetched = 0
    /\ pc \in {"loop", "probe", "reported", "done"} => fetched = 1
    /\ fetched = 0 =>
          /\ i = 1 /\ j = 1 /\ ncalls = 0
          /\ doc = NoDocument /\ resp = NoResponse /\ url_list = <<>>
          /\ ranges = <<>>
    /\ error = "fetch" => pc = "aborted" /\ fetched = 0

C6_RetryOrAbort ==
    /\ (pc = "fetch" /\ attempt' = attempt + 1) =>
          (pc' = "fetch" /\ error' = "none" /\ fetched' = 0)
    /\ pc # "aborted"
    /\ fetched = 1 => (fetched' = 1 /\ ranges' = ranges)

C6_RangeFetch == [](C6_NothingBeforeFetch) /\ [][C6_RetryOrAbort]_vars

\* every URLError the environment produces was retried, and the fetch is
\* still being attempted
C6_Witness == pc = "fetch" /\ attempt = MaxAttempts /\ error = "none"

(***************************************************************************)
(* C7.  No target is processed with an empty RangeSet.                     *)
(***************************************************************************)
C7_RangesNeverEmpty ==
    (Returned \/ ncalls > 0 \/ pc = "done") => Len(ranges) > 0

(***************************************************************************)
(* C8.  Wildcard safeguard: with more than 1000 records the filter is      *)
(* called once, on the seed, never on a record name as such, and the       *)
(* expansion is the no-DNS result of the seed; with 1000 records or fewer  *)
(* the wildcard branch is not taken and every named record either went     *)
(* through the filter or was already in the list.                          *)
(***************************************************************************)
C8_WildcardSafeguard ==
    (~no_dns /\ doc.file = "list" /\ nrecords >= 0) =>
        IF nrecords > WildcardLimit
        THEN /\ wildcard
             /\ ncalls <= 1
             /\ filterTrue \cup filterFalse \subseteq {Target}
             /\ Returned =>
                   /\ ncalls = 1
                   /\ filterTrue \cup filterFalse = {Target}
                   /\ url_list = IF Target \in filterTrue THEN <<Target>> ELSE <<>>
                   /\ url_list = SeedOnly(Target, ranges).url_list
        ELSE /\ ~wildcard
             /\ filterTrue \cup filterFalse \subseteq doc.names
             /\ Returned =>
                   \A n \in doc.names :
                       n \in filterTrue \cup filterFalse \/ n \in Range(url_list)

\* over 1000 records of another name: only the seed was filtered, and kept
C8_Witness ==
    /\ Returned
    /\ nrecords > WildcardLimit
    /\ Target \notin doc.names
    /\ url_list = <<Target>>
    /\ ncalls = 1

(***************************************************************************)
(* C9.  When dnsrecon leaves no document, or one that is no list of        *)
(* records with a 'name', the expansion is empty, nothing is probed, the   *)
(* summary is 'No issues found' and the run is not aborted.                *)
(***************************************************************************)
C9_ExpanderFailureRecovered ==
    (~no_dns /\ Malformed) =>
        /\ pc # "aborted"
        /\ url_list = <<>>
        /\ Probed = {}
        /\ pc = "reported" => summary = "No issues found"

(***************************************************************************)
(* C10.  For at most 1000 records, the list recon_target returns is        *)
(* lowercase, holds no name twice, and holds exactly the names the filter  *)
(* answered True for.                                                      *)
(***************************************************************************)
C10_ExpansionIsSet ==
    (Returned /\ ~no_dns /\ ~wildcard) =>
        /\ \A k \in 1..Len(url_list) : IsLower(url_list[k])
        /\ NoDuplicates(url_list)
        /\ Range(url_list) = {Lower(n) : n \in filterTrue}

====
